---------------------------- MODULE Spec2Model ----------------------------
(***************************************************************************)
(* Lifecycle of a sing-box Box (box.go): PreStart / Start / Close with the *)
(* rollback on a failed start, the one-shot done channel, the aggregated   *)
(* close errors, and the single-slot reload channel; and its construction  *)
(* by New().                                                               *)
(*                                                                         *)
(* In the lifecycle specifications a state is the Box after New() has      *)
(* returned it, together with the goroutines that call its methods.  A     *)
(* step is one call of a component's method (PreStart, Start, Close), one  *)
(* channel operation, or a return.  In SpecNew a state is a call of New()  *)
(* under way, then the Box it returned.                                    *)
(***************************************************************************)
EXTENDS Naturals, Sequences, FiniteSets, TLC

(***************************************************************************)
(* Bounds of the model.                                                    *)
(***************************************************************************)
NumInbounds == 2
NumOutbounds == 1
NumProxyProviders == 1
NumRuleProviders == 1
\* goroutines that call the Box's methods
NumCallers == 2
\* method calls made on the Box in one run
MaxCalls == 2
\* component calls that fail (return an error or panic) in one run
MaxFaults == 2
\* goroutines that post to the reload channel, and posts each one makes
NumProducers == 2
MaxPosts == 2
\* the most entries options.RulProviders, options.Outbounds and
\* options.ProxyProviders have, the most outbounds a proxy provider returns, and
\* the most calls the router makes of the default-outbound factory
MaxRuleProviderOptions == 2
MaxOutboundOptions == 1
MaxProxyProviderOptions == 2
MaxProviderOutbounds == 2
MaxFactoryCalls == 1

(***************************************************************************)
(* The components a Box owns.  A component is <<kind, index>>; the index   *)
(* of a slice element is its position (from 1), the index of a service is  *)
(* the position of its registration in New.                                *)
(***************************************************************************)
Inbounds == {<<"inbound", i>> : i \in 1..NumInbounds}
Outbounds == {<<"outbound", i>> : i \in 1..NumOutbounds}
ProxyProviders == {<<"proxyProvider", i>> : i \in 1..NumProxyProviders}
RuleProviders == {<<"ruleProvider", i>> : i \in 1..NumRuleProviders}
Router == <<"router", 0>>
LogFactory == <<"logFactory", 0>>
\* preServices["clash api"] and preServices["v2ray api"], in the order New registers them
ClashAPI == <<"preService", 1>>
V2RayAPI == <<"preService", 2>>
AllPreServices == {ClashAPI, V2RayAPI}
\* postServices is made empty in New and nothing is ever put in it
PostServices == {}

Callers == 1..NumCallers
Producers == 1..NumProducers

\* a reload channel that buffers two notifications
ReloadChanCapTwo == 1 + 1
\* cap(reloadChan): make(chan struct{}, 1)
ReloadChanCap == 1

VARIABLES
    preServices,   \* the services New registered in s.preServices
    preStarters,   \* those of them that implement adapter.PreStarter
    done,          \* TRUE once the channel s.done is closed
    preStartCount, \* per component: PreStart() calls received
    startCount,    \* per component: Start() calls received
    closeCount,    \* per component: Close() calls received
    callsMade,     \* method calls begun on the Box
    faults,        \* component calls that failed so far
    errorLog,      \* what log.Error has written, in order
    pc,            \* per caller: where it is in the method it runs
    op,            \* per caller: the method it called (or last called)
    visited,       \* per caller: the elements the current range loop has visited
    err,           \* per caller: the err of start()/preStart(), <<>> when nil
    errors,        \* per caller: the errors Close() has accumulated
    closeErrs,     \* per caller: the components whose Close() returned it an error
    rollback,      \* per caller: Close() was called by PreStart()/Start() after a failure
    teardown,      \* per caller: its Close() got past the done check and closed s.done
    ret,           \* per caller: how its last call ended
    panicVal,      \* per caller: the value of the panic it is unwinding or ended with
    prev,          \* per caller: the method of its call before this one and how it ended
    reloadChan,    \* notifications buffered in s.reloadChan
    posts,         \* per producer: posts attempted
    lastPost,      \* per producer: outcome of its last post
    options,       \* New: the configuration it is called with
    newPc,         \* New: where the call is, "returned", "failed" or "panicked"
    routeOptions,  \* New: routeOptions.Rules
    dnsOptions,    \* New: dnsOptions.Rules
    ruleProviders, \* New: the local slice ruleProviders, by index of the option
    formatArgs,    \* New: the arguments of each FormatRule call, in order
    formatResults, \* New: what each FormatRule call that succeeded returned
    routerArgs,    \* New: the rule lists of each route.NewRouter call
    outbounds,     \* New: the local slice outbounds, which the factory closure captures
    proxyProviders, \* New: the local slice proxyProviders
    fetched,       \* New: what each StartGetOutbounds call that succeeded returned
    getCalls,      \* New: per proxy provider option, StartGetOutbounds calls made
    initializeArgs, \* New: the outbounds argument of each router.Initialize call
    factoryCalls,  \* when the router called the factory: "Initialize" or "later"
    box,           \* the slices of the Box that New returned
    newErr,        \* the error New returned, <<>> when none
    closedOutbounds \* the outbounds Close() of that Box has closed, in order

boxVars == <<preServices, preStarters, done, preStartCount, startCount, closeCount,
             callsMade, faults, errorLog>>
callerVars == <<pc, op, visited, err, errors, closeErrs, rollback, teardown, ret,
                panicVal, prev>>
reloadVars == <<reloadChan, posts, lastPost>>
ruleVars == <<routeOptions, dnsOptions, ruleProviders, formatArgs, formatResults,
              routerArgs>>
outboundVars == <<outbounds, proxyProviders, fetched, getCalls, initializeArgs,
                  factoryCalls>>
newVars == <<options, newPc, ruleVars, outboundVars, box, newErr, closedOutbounds>>
vars == <<boxVars, callerVars, reloadVars, newVars>>

Components ==
    PostServices \cup RuleProviders \cup ProxyProviders \cup Inbounds \cup Outbounds
        \cup {Router} \cup preServices \cup {LogFactory}

Index(c) == c[2]

\* nil error
Nil == <<>>

\* outbound.New for the i-th entry of options.Outbounds, for the j-th outbound
\* that proxy provider p returned, and for the k-th call of the factory
StaticOutbound(i) == <<"static", i>>
ProviderOutbound(p, j) == <<"provider", p, j>>
DirectOutbound(k) == <<"direct", k>>

\* A rule list as New sees it: empty or not.  NonEmptyRules(kind, src) is a
\* non-empty list of route or DNS rules that src wrote, src being "config" or
\* the index of the rule provider whose FormatRule returned it.
NoRules == <<>>
NonEmptyRules(kind, src) == <<<<kind, src>>>>
RuleLists(kind, src) == {NoRules, NonEmptyRules(kind, src)}

\* the configurations New is called with
Options ==
    [RulProviders : 0..MaxRuleProviderOptions,
     Route : RuleLists("route", "config"),
     DNS : RuleLists("dns", "config"),
     Outbounds : 0..MaxOutboundOptions,
     ProxyProviders : 0..MaxProxyProviderOptions]

\* the locals of New before its first statement
NewLocalsInit ==
    /\ routeOptions = NoRules
    /\ dnsOptions = NoRules
    /\ ruleProviders = <<>>
    /\ formatArgs = <<>>
    /\ formatResults = <<>>
    /\ routerArgs = <<>>
    /\ outbounds = <<>>
    /\ proxyProviders = <<>>
    /\ fetched = <<>>
    /\ getCalls = [p \in 1..MaxProxyProviderOptions |-> 0]
    /\ initializeArgs = <<>>
    /\ factoryCalls = <<>>
    /\ box = [outbounds |-> <<>>, proxyProviders |-> <<>>, ruleProviders |-> <<>>]
    /\ newErr = Nil
    /\ closedOutbounds = <<>>

\* no call of New is under way
NoNewCall ==
    /\ options = [RulProviders |-> 0, Route |-> NoRules, DNS |-> NoRules,
                  Outbounds |-> 0, ProxyProviders |-> 0]
    /\ newPc = "none"
    /\ NewLocalsInit

(***************************************************************************)
(* The state New() returns: nothing started, nothing closed, done open.    *)
(* New registers the clash api service when needClashAPI and the v2ray     *)
(* api service when needV2RayAPI; whether a service implements PreStarter  *)
(* is a property of its type.                                              *)
(***************************************************************************)
Created ==
    /\ done = FALSE
    /\ preStartCount = [c \in Components |-> 0]
    /\ startCount = [c \in Components |-> 0]
    /\ closeCount = [c \in Components |-> 0]
    /\ closeErrs = [t \in Callers |-> {}]
    /\ callsMade = 0
    /\ faults = 0
    /\ errorLog = <<>>
    /\ pc = [t \in Callers |-> "idle"]
    /\ op = [t \in Callers |-> "none"]
    /\ visited = [t \in Callers |-> {}]
    /\ err = [t \in Callers |-> Nil]
    /\ errors = [t \in Callers |-> <<>>]
    /\ rollback = [t \in Callers |-> FALSE]
    /\ teardown = [t \in Callers |-> FALSE]
    /\ ret = [t \in Callers |-> "none"]
    /\ panicVal = [t \in Callers |-> Nil]
    /\ prev = [t \in Callers |-> <<"none", "none">>]
    /\ reloadChan = 0
    /\ posts = [p \in Producers |-> 0]
    /\ lastPost = [p \in Producers |-> "none"]

Init ==
    /\ preServices \in SUBSET AllPreServices
    /\ preStarters \in SUBSET preServices
    /\ Created
    /\ NoNewCall

\* New is called with some configuration; no Box exists yet
InitNew ==
    /\ preServices = {}
    /\ preStarters = {}
    /\ Created
    /\ options \in Options
    /\ newPc = "log.New"
    /\ NewLocalsInit

(***************************************************************************)
(* The loops of preStart(), start() and Close(), in the order of the code. *)
(* A stage is one loop (or one single call); pc names the stage a caller   *)
(* is in.                                                                  *)
(***************************************************************************)
PreStartStages == <<"preStart.services", "startOutbounds", "router.Start">>
\* start() with the inbounds started before the providers
StartStagesInboundsEarly ==
    PreStartStages \o <<"start.services", "start.inbounds", "start.proxyProviders",
                        "start.ruleProviders">>
\* start() without the call of preStart()
StartStagesNoPreStart ==
    <<"start.services", "start.proxyProviders", "start.ruleProviders", "start.inbounds">>
StartStages ==
    PreStartStages \o <<"start.services", "start.proxyProviders",
                        "start.ruleProviders", "start.inbounds">>
\* Close() without the loop over s.inbounds
CloseStagesNoInbounds ==
    <<"close.postServices", "close.ruleProviders", "close.proxyProviders",
      "close.outbounds", "close.router", "close.preServices", "close.logFactory">>
\* Close() with the router closed before the outbounds
CloseStagesRouterEarly ==
    <<"close.postServices", "close.ruleProviders", "close.proxyProviders",
      "close.inbounds", "close.router", "close.outbounds", "close.preServices",
      "close.logFactory">>
\* Close() without the loop over s.preServices
CloseStagesNoPreServices ==
    <<"close.postServices", "close.ruleProviders", "close.proxyProviders",
      "close.inbounds", "close.outbounds", "close.router", "close.logFactory">>
CloseStages ==
    <<"close.postServices", "close.ruleProviders", "close.proxyProviders",
      "close.inbounds", "close.outbounds", "close.router", "close.preServices",
      "close.logFactory">>

\* what a stage ranges over
StageSet(st) ==
    CASE st = "preStart.services" -> preServices
      [] st = "startOutbounds" -> Outbounds
      [] st = "router.Start" -> {Router}
      [] st = "start.services" -> preServices
      [] st = "start.proxyProviders" -> ProxyProviders
      [] st = "start.ruleProviders" -> RuleProviders
      [] st = "start.inbounds" -> Inbounds
      [] st = "close.postServices" -> PostServices
      [] st = "close.ruleProviders" -> RuleProviders
      [] st = "close.proxyProviders" -> ProxyProviders
      [] st = "close.inbounds" -> Inbounds
      [] st = "close.outbounds" -> Outbounds
      [] st = "close.router" -> {Router}
      [] st = "close.preServices" -> preServices
      [] st = "close.logFactory" -> {LogFactory}

\* the stages of the method a caller runs, and the pc after the last of them
StagesOf(m) ==
    CASE m = "PreStart" -> PreStartStages
      [] m = "Start" -> StartStages
      [] m = "Close" -> CloseStages
ReturnOf(m) ==
    CASE m = "PreStart" -> "PreStart.return"
      [] m = "Start" -> "Start.return"
      [] m = "Close" -> "Close.return"

\* a loop over nothing runs no iteration: control reaches the first stage from
\* the i-th on that has an element, or the return
RECURSIVE StageFrom(_, _)
StageFrom(m, i) ==
    IF i > Len(StagesOf(m)) THEN ReturnOf(m)
    ELSE IF StageSet(StagesOf(m)[i]) # {} THEN StagesOf(m)[i]
    ELSE StageFrom(m, i + 1)

StageIndex(m, st) == CHOOSE i \in 1..Len(StagesOf(m)) : StagesOf(m)[i] = st

\* the pc of a caller in stage st of method m once the loop has visited vis
AfterVisit(m, st, vis) ==
    IF vis = StageSet(st) THEN StageFrom(m, StageIndex(m, st) + 1) ELSE st

\* range over a slice: the next element is the unvisited one of least index
NextInSlice(S, vis) == CHOOSE c \in S \ vis : \A d \in S \ vis : Index(c) <= Index(d)
\* range over a map: Go fixes no order, any unvisited key may come next
NextInMap(S, vis) == S \ vis

(***************************************************************************)
(* What a component's method may do when called.  A call that does not     *)
(* return nil counts as a fault; a run has at most MaxFaults of them.      *)
(***************************************************************************)
StartOutcomes == {"ok", "err"}
CloseOutcomes == {"ok", "err", "panic"}
MayEnd(r) == r = "ok" \/ faults < MaxFaults
Faults(r) == IF r = "ok" THEN faults ELSE faults + 1

(***************************************************************************)
(* A goroutine that is not inside a call calls PreStart(), Start() or      *)
(* Close().                                                                *)
(***************************************************************************)
Methods == {"PreStart", "Start", "Close"}
EntryOf(m) == IF m = "Close" THEN "close.select" ELSE StageFrom(m, 1)

Begin(t, m) ==
    /\ pc[t] = "idle"
    /\ callsMade < MaxCalls
    /\ callsMade' = callsMade + 1
    /\ op' = [op EXCEPT ![t] = m]
    /\ pc' = [pc EXCEPT ![t] = EntryOf(m)]
    /\ visited' = [visited EXCEPT ![t] = {}]
    /\ err' = [err EXCEPT ![t] = Nil]
    /\ errors' = [errors EXCEPT ![t] = <<>>]
    /\ rollback' = [rollback EXCEPT ![t] = FALSE]
    /\ teardown' = [teardown EXCEPT ![t] = FALSE]
    /\ ret' = [ret EXCEPT ![t] = "running"]
    /\ panicVal' = [panicVal EXCEPT ![t] = Nil]
    /\ closeErrs' = [closeErrs EXCEPT ![t] = {}]
    /\ prev' = [prev EXCEPT ![t] = <<op[t], ret[t]>>]
    /\ UNCHANGED <<preServices, preStarters, done, preStartCount, startCount,
                   closeCount, faults, errorLog, reloadVars, newVars>>

Call(t) == \E m \in Methods : Begin(t, m)

(***************************************************************************)
(* preStart() and start().  A failure makes the method return the error    *)
(* to PreStart()/Start(), whose err != nil branch is the pc "rollback".    *)
(***************************************************************************)
\* the caller, in method m, goes on after element c of its stage
Advance(t, m, c) ==
    /\ visited' = [visited EXCEPT ![t] =
                      IF AfterVisit(m, pc[t], @ \cup {c}) = pc[t] THEN @ \cup {c} ELSE {}]
    /\ pc' = [pc EXCEPT ![t] = AfterVisit(m, pc[t], visited[t] \cup {c})]

\* the method returns the error e
Fail(t, e) ==
    /\ visited' = [visited EXCEPT ![t] = {}]
    /\ pc' = [pc EXCEPT ![t] = "rollback"]
    /\ err' = [err EXCEPT ![t] = e]

\* a Start() call whose failure is recorded but does not end the method
StartComponentNoAbort(t, c, label) ==
    \E r \in StartOutcomes :
        /\ MayEnd(r)
        /\ faults' = Faults(r)
        /\ startCount' = [startCount EXCEPT ![c] = @ + 1]
        /\ Advance(t, op[t], c)
        /\ err' = [err EXCEPT ![t] = IF r = "ok" THEN @ ELSE <<label, c>>]
        /\ UNCHANGED <<preServices, preStarters, done, preStartCount, closeCount,
                       closeErrs, callsMade, errorLog, op, errors, rollback, teardown,
                       ret, panicVal, prev, reloadVars, newVars>>

\* one Start() call on component c, a failure wrapped with label
StartComponent(t, c, label) ==
    \E r \in StartOutcomes :
        /\ MayEnd(r)
        /\ faults' = Faults(r)
        /\ startCount' = [startCount EXCEPT ![c] = @ + 1]
        /\ IF r = "ok" THEN Advance(t, op[t], c) /\ UNCHANGED err
                      ELSE Fail(t, <<label, c>>)
        /\ UNCHANGED <<preServices, preStarters, done, preStartCount, closeCount,
                       closeErrs, callsMade, errorLog, op, errors, rollback, teardown,
                       ret, panicVal, prev, reloadVars, newVars>>

\* for serviceName, service := range s.preServices: PreStart() if it is a PreStarter
PreStartService(t) ==
    /\ pc[t] = "preStart.services"
    /\ \E c \in NextInMap(preServices, visited[t]) :
        \E r \in StartOutcomes :
            /\ c \notin preStarters => r = "ok"
            /\ MayEnd(r)
            /\ faults' = Faults(r)
            /\ preStartCount' = [preStartCount EXCEPT ![c] =
                                    IF c \in preStarters THEN @ + 1 ELSE @]
            /\ IF r = "ok" THEN Advance(t, op[t], c) /\ UNCHANGED err
               ELSE Fail(t, <<"pre-starting", c>>)
    /\ UNCHANGED <<preServices, preStarters, done, startCount, closeCount, closeErrs,
                   callsMade, errorLog, op, errors, rollback, teardown, ret, panicVal,
                   prev, reloadVars, newVars>>

\* s.startOutbounds(): starts every outbound
StartOutbound(t) ==
    /\ pc[t] = "startOutbounds"
    /\ StartComponent(t, NextInSlice(Outbounds, visited[t]), "initialize outbound")

\* return s.router.Start(): the router's error is returned as it is
StartRouter(t) ==
    /\ pc[t] = "router.Start"
    /\ StartComponent(t, Router, "")

\* for serviceName, service := range s.preServices: service.Start()
StartService(t) ==
    /\ pc[t] = "start.services"
    /\ \E c \in NextInMap(preServices, visited[t]) : StartComponent(t, c, "start")

StartProxyProvider(t) ==
    /\ pc[t] = "start.proxyProviders"
    /\ StartComponent(t, NextInSlice(ProxyProviders, visited[t]), "start proxyprovider")

StartRuleProvider(t) ==
    /\ pc[t] = "start.ruleProviders"
    /\ StartComponent(t, NextInSlice(RuleProviders, visited[t]), "start ruleprovider")

StartInbound(t) ==
    /\ pc[t] = "start.inbounds"
    /\ StartComponent(t, NextInSlice(Inbounds, visited[t]), "initialize inbound")

\* err == nil: PreStart()/Start() logs "pre-started"/"started" and returns nil
ReturnStarted(t) ==
    /\ pc[t] \in {"PreStart.return", "Start.return"}
    /\ pc' = [pc EXCEPT ![t] = "idle"]
    /\ ret' = [ret EXCEPT ![t] = "nil"]
    /\ UNCHANGED <<boxVars, op, visited, err, errors, closeErrs, rollback, teardown,
                   panicVal, prev, reloadVars, newVars>>

\* an err != nil branch that returns the error without calling s.Close()
RollbackNoClose(t) ==
    /\ pc[t] = "rollback"
    /\ pc' = [pc EXCEPT ![t] = "idle"]
    /\ ret' = [ret EXCEPT ![t] = "err"]
    /\ UNCHANGED <<boxVars, op, visited, err, errors, closeErrs, rollback, teardown,
                   panicVal, prev, reloadVars, newVars>>

\* err != nil: PreStart()/Start() defers the recover and calls s.Close()
Rollback(t) ==
    /\ pc[t] = "rollback"
    /\ pc' = [pc EXCEPT ![t] = "close.select"]
    /\ rollback' = [rollback EXCEPT ![t] = TRUE]
    /\ UNCHANGED <<boxVars, op, visited, err, errors, closeErrs, teardown, ret, panicVal,
                   prev, reloadVars, newVars>>

(***************************************************************************)
(* Close().                                                                *)
(***************************************************************************)
\* PreStart()/Start() returning what Close() returned
ReturnCloseResult(t, v) ==
    /\ pc' = [pc EXCEPT ![t] = "idle"]
    /\ ret' = [ret EXCEPT ![t] = v]

\* Close() returns to its caller: to the goroutine, or to PreStart()/Start(),
\* which drops what Close() returned and returns the start error
Return(t, v) ==
    /\ pc' = [pc EXCEPT ![t] = "idle"]
    /\ ret' = [ret EXCEPT ![t] = IF rollback[t] THEN "err" ELSE v]

\* Close() without the test of s.done: the default branch is always taken
CloseSelectNoTest(t) ==
    /\ pc[t] = "close.select"
    /\ pc' = [pc EXCEPT ![t] = "close.done"]
    /\ UNCHANGED <<boxVars, op, visited, err, errors, closeErrs, rollback, teardown,
                   ret, panicVal, prev, reloadVars, newVars>>

\* select { case <-s.done: return os.ErrClosed; default: ... }
CloseSelect(t) ==
    /\ pc[t] = "close.select"
    /\ IF done THEN Return(t, "ErrClosed")
               ELSE pc' = [pc EXCEPT ![t] = "close.done"] /\ UNCHANGED ret
    /\ UNCHANGED <<boxVars, op, visited, err, errors, closeErrs, rollback, teardown,
                   panicVal, prev, reloadVars, newVars>>

\* a panic leaves Close(): in a rollback the deferred function of
\* PreStart()/Start() runs next, otherwise the panic reaches the goroutine
Panic(t, v) ==
    /\ panicVal' = [panicVal EXCEPT ![t] = v]
    /\ visited' = [visited EXCEPT ![t] = {}]
    /\ pc' = [pc EXCEPT ![t] = IF rollback[t] THEN "recover" ELSE "idle"]
    /\ ret' = [ret EXCEPT ![t] = IF rollback[t] THEN @ ELSE "panic"]

\* default: close(s.done); closing a closed channel panics
CloseDone(t) ==
    /\ pc[t] = "close.done"
    /\ IF done
         THEN /\ Panic(t, <<"close of closed channel">>)
              /\ UNCHANGED <<done, teardown>>
         ELSE /\ done' = TRUE
              /\ teardown' = [teardown EXCEPT ![t] = TRUE]
              /\ pc' = [pc EXCEPT ![t] = StageFrom("Close", 1)]
              /\ UNCHANGED <<visited, ret, panicVal>>
    /\ UNCHANGED <<preServices, preStarters, preStartCount, startCount, closeCount,
                   closeErrs, callsMade, faults, errorLog, op, err, errors, rollback,
                   prev, reloadVars, newVars>>

\* an Append that keeps only the newest error
AppendErrorKeepLast(es, r, c) == IF r = "err" THEN <<c>> ELSE es

\* E.Append(errors, err, wrap): errors with the wrapped err added, errors itself
\* when err is nil
AppendError(es, r, c) == IF r = "err" THEN Append(es, c) ELSE es

\* one Close() call on component c; its error, if any, joins errors
CloseComponent(t, c) ==
    \E r \in CloseOutcomes :
        /\ MayEnd(r)
        /\ faults' = Faults(r)
        /\ closeCount' = [closeCount EXCEPT ![c] = @ + 1]
        /\ closeErrs' = [closeErrs EXCEPT ![t] = IF r = "err" THEN @ \cup {c} ELSE @]
        /\ IF r = "panic"
             THEN Panic(t, <<"panic", c>>) /\ UNCHANGED errors
             ELSE /\ errors' = [errors EXCEPT ![t] = AppendError(@, r, c)]
                  /\ Advance(t, "Close", c)
                  /\ UNCHANGED <<ret, panicVal>>
        /\ UNCHANGED <<preServices, preStarters, done, preStartCount, startCount,
                       callsMade, errorLog, op, err, rollback, teardown, prev,
                       reloadVars, newVars>>

CloseRuleProvider(t) ==
    /\ pc[t] = "close.ruleProviders"
    /\ CloseComponent(t, NextInSlice(RuleProviders, visited[t]))

CloseProxyProvider(t) ==
    /\ pc[t] = "close.proxyProviders"
    /\ CloseComponent(t, NextInSlice(ProxyProviders, visited[t]))

CloseInbound(t) ==
    /\ pc[t] = "close.inbounds"
    /\ CloseComponent(t, NextInSlice(Inbounds, visited[t]))

CloseOutbound(t) ==
    /\ pc[t] = "close.outbounds"
    /\ CloseComponent(t, NextInSlice(Outbounds, visited[t]))

CloseRouter(t) ==
    /\ pc[t] = "close.router"
    /\ CloseComponent(t, Router)

\* for serviceName, service := range s.preServices: service.Close()
ClosePreService(t) ==
    /\ pc[t] = "close.preServices"
    /\ \E c \in NextInMap(preServices, visited[t]) : CloseComponent(t, c)

CloseLogFactory(t) ==
    /\ pc[t] = "close.logFactory"
    /\ CloseComponent(t, LogFactory)

\* return errors
CloseReturn(t) ==
    /\ pc[t] = "Close.return"
    /\ Return(t, IF errors[t] = <<>> THEN "nil" ELSE "errors")
    /\ UNCHANGED <<boxVars, op, visited, err, errors, closeErrs, rollback, teardown,
                   panicVal, prev, reloadVars, newVars>>

\* a deferred function that recovers and lets PreStart()/Start() return err
RecoverSwallow(t) ==
    /\ pc[t] = "recover"
    /\ pc' = [pc EXCEPT ![t] = "idle"]
    /\ ret' = [ret EXCEPT ![t] = "err"]
    /\ UNCHANGED <<boxVars, op, visited, err, errors, closeErrs, rollback, teardown,
                   panicVal, prev, reloadVars, newVars>>

\* the deferred function of PreStart()/Start(): recover() gives v != nil,
\* log.Error(E.Cause(err, "origin error")), panic("panic on early close: " + v)
Recover(t) ==
    /\ pc[t] = "recover"
    /\ errorLog' = Append(errorLog, <<"origin error", err[t]>>)
    /\ panicVal' = [panicVal EXCEPT ![t] = <<"panic on early close", @>>]
    /\ pc' = [pc EXCEPT ![t] = "idle"]
    /\ ret' = [ret EXCEPT ![t] = "panic"]
    /\ UNCHANGED <<preServices, preStarters, done, preStartCount, startCount,
                   closeCount, closeErrs, callsMade, faults, op, visited, err, errors,
                   rollback, teardown, prev, reloadVars, newVars>>

(***************************************************************************)
(* The reload channel: a producer posts without blocking                   *)
(* (select { case reloadChan <- struct{}{}: default: }), the owner of the  *)
(* Box reads from ReloadChan().                                            *)
(***************************************************************************)
PostReload(p) ==
    /\ posts[p] < MaxPosts
    /\ posts' = [posts EXCEPT ![p] = @ + 1]
    /\ IF reloadChan < ReloadChanCap
         THEN /\ reloadChan' = reloadChan + 1
              /\ lastPost' = [lastPost EXCEPT ![p] = "sent"]
         ELSE /\ reloadChan' = reloadChan
              /\ lastPost' = [lastPost EXCEPT ![p] = "dropped"]
    /\ UNCHANGED <<boxVars, callerVars, newVars>>

ReadReload ==
    /\ reloadChan > 0
    /\ reloadChan' = reloadChan - 1
    /\ UNCHANGED <<boxVars, callerVars, posts, lastPost, newVars>>

(***************************************************************************)
(* New(options).  A step is one call of a constructor or of a provider's   *)
(* method together with what New does with its result; a loop takes one    *)
(* step for each element.  FormatRule, StartGetOutbounds and the router    *)
(* are outside box.go: what they return, and when the router calls the     *)
(* factory it was given, is any of the possible outcomes.  FormatRule is   *)
(* taken to read its arguments only.                                       *)
(***************************************************************************)
NewOutcomes == {"ok", "err"}

\* return nil, err
NewFail(e) ==
    /\ newPc' = "failed"
    /\ newErr' = e

\* if len(options.RulProviders) > 0 { for ... }: where New goes once i rule
\* providers are built, and likewise for the outbounds and the proxy providers
AfterRuleProvider(i) ==
    IF i < options.RulProviders THEN "ruleProviders" ELSE "route.NewRouter"
AfterProxyProvider(p) ==
    IF p < options.ProxyProviders THEN "proxyProviders" ELSE "router.Initialize"
AfterOutbound(i) ==
    IF i < options.Outbounds THEN "outbounds" ELSE AfterProxyProvider(0)

\* log.New, then routeOptions and dnsOptions are copied from the options
NewLogFactory ==
    /\ newPc = "log.New"
    /\ \E r \in NewOutcomes :
        IF r = "ok"
          THEN /\ routeOptions' = options.Route
               /\ dnsOptions' = options.DNS
               /\ newPc' = AfterRuleProvider(0)
               /\ UNCHANGED newErr
          ELSE /\ NewFail(<<"create log factory">>)
               /\ UNCHANGED <<routeOptions, dnsOptions>>
    /\ UNCHANGED <<boxVars, callerVars, reloadVars, options, ruleProviders, formatArgs,
                   formatResults, routerArgs, outboundVars, box, closedOutbounds>>

\* the pointer New passes to FormatRule for a rule list: its address when the
\* list is not empty, nil when it is; a pointer is <<l>>, nil is <<>>
RulesArg(l) == IF Len(l) > 0 THEN <<l>> ELSE <<>>

\* a New that hands every rule provider the rule list of the configuration
FormatRuleInputFromConfig(kind) == IF kind = "route" THEN options.Route ELSE options.DNS

\* the rule list a rule provider is handed: routeOptions.Rules, dnsOptions.Rules
FormatRuleInput(kind) == IF kind = "route" THEN routeOptions ELSE dnsOptions

\* a New that takes the provider's list whatever the current one is
ReplaceRulesAlways(current, new) == new

\* if len(rules) > 0 { rules = newRules }
ReplaceRules(current, new) == IF Len(current) > 0 THEN new ELSE current

\* one iteration of the loop over options.RulProviders: NewRuleProvider,
\* FormatRule, the two replacements, append
NewRuleProvider ==
    /\ newPc = "ruleProviders"
    /\ LET i == Len(ruleProviders) + 1
           args == [dns |-> RulesArg(FormatRuleInput("dns")),
                    route |-> RulesArg(FormatRuleInput("route"))]
       IN  \/ /\ NewFail(<<"parse ruleprovider", i>>)
              /\ UNCHANGED ruleVars
           \/ /\ formatArgs' = Append(formatArgs, args)
              /\ NewFail(<<"ruleprovider format rule", i>>)
              /\ UNCHANGED <<routeOptions, dnsOptions, ruleProviders, formatResults,
                             routerArgs>>
           \/ \E newDNSRules \in RuleLists("dns", i),
                 newRouteRules \in RuleLists("route", i) :
                /\ formatArgs' = Append(formatArgs, args)
                /\ formatResults' =
                       Append(formatResults, [dns |-> newDNSRules, route |-> newRouteRules])
                /\ routeOptions' = ReplaceRules(routeOptions, newRouteRules)
                /\ dnsOptions' = ReplaceRules(dnsOptions, newDNSRules)
                /\ ruleProviders' = Append(ruleProviders, i)
                /\ newPc' = AfterRuleProvider(i)
                /\ UNCHANGED <<newErr, routerArgs>>
    /\ UNCHANGED <<boxVars, callerVars, reloadVars, options, outboundVars, box,
                   closedOutbounds>>

\* route.NewRouter(ctx, logFactory, routeOptions, dnsOptions, ...), then
\* SetRouter on every rule provider
NewRouter ==
    /\ newPc = "route.NewRouter"
    /\ routerArgs' = Append(routerArgs, [route |-> routeOptions, dns |-> dnsOptions])
    /\ \E r \in NewOutcomes :
        IF r = "ok" THEN newPc' = "inbounds" /\ UNCHANGED newErr
                    ELSE NewFail(<<"parse route options">>)
    /\ UNCHANGED <<boxVars, callerVars, reloadVars, options, routeOptions, dnsOptions,
                   ruleProviders, formatArgs, formatResults, outboundVars, box,
                   closedOutbounds>>

\* the loop over options.Inbounds: inbound.New for each, a failure returns
NewInbounds ==
    /\ newPc = "inbounds"
    /\ \E r \in NewOutcomes :
        IF r = "ok" THEN newPc' = AfterOutbound(0) /\ UNCHANGED newErr
                    ELSE NewFail(<<"parse inbound">>)
    /\ UNCHANGED <<boxVars, callerVars, reloadVars, options, ruleVars, outboundVars, box,
                   closedOutbounds>>

\* one iteration of the loop over options.Outbounds
NewOutbound ==
    /\ newPc = "outbounds"
    /\ LET i == Len(outbounds) + 1
       IN  \E r \in NewOutcomes :
            IF r = "ok"
              THEN /\ outbounds' = Append(outbounds, StaticOutbound(i))
                   /\ newPc' = AfterOutbound(i)
                   /\ UNCHANGED newErr
              ELSE /\ NewFail(<<"parse outbound", i>>)
                   /\ UNCHANGED outbounds
    /\ UNCHANGED <<boxVars, callerVars, reloadVars, options, ruleVars, proxyProviders,
                   fetched, getCalls, initializeArgs, factoryCalls, box, closedOutbounds>>

\* the outbounds made from the first n definitions that provider p returned
ProviderOutbounds(p, n) == [j \in 1..n |-> ProviderOutbound(p, j)]

\* a New that puts a provider's outbounds in front of those it has
AppendOutboundsInFront(outs, more) == more \o outs

\* outbounds = append(outbounds, out) for each out of more
AppendOutbounds(outs, more) == outs \o more

\* one iteration of the loop over options.ProxyProviders: NewProxyProvider,
\* StartGetOutbounds, outbound.New and append for each definition returned
NewProxyProvider ==
    /\ newPc = "proxyProviders"
    /\ LET p == Len(proxyProviders) + 1
       IN  \/ /\ NewFail(<<"parse proxyprovider", p>>)
              /\ UNCHANGED outboundVars
           \/ /\ getCalls' = [getCalls EXCEPT ![p] = @ + 1]
              /\ NewFail(<<"get outbounds from proxyprovider", p>>)
              /\ UNCHANGED <<outbounds, proxyProviders, fetched, initializeArgs,
                             factoryCalls>>
           \/ \E n \in 0..MaxProviderOutbounds :
                /\ getCalls' = [getCalls EXCEPT ![p] = @ + 1]
                /\ fetched' = Append(fetched, ProviderOutbounds(p, n))
                /\ \/ /\ outbounds' = AppendOutbounds(outbounds, ProviderOutbounds(p, n))
                      /\ proxyProviders' = Append(proxyProviders, p)
                      /\ newPc' = AfterProxyProvider(p)
                      /\ UNCHANGED newErr
                   \/ \E k \in 1..n :
                        /\ outbounds' =
                               AppendOutbounds(outbounds, ProviderOutbounds(p, k - 1))
                        /\ NewFail(<<"parse proxyprovider outbound", p, k>>)
                        /\ UNCHANGED proxyProviders
                /\ UNCHANGED <<initializeArgs, factoryCalls>>
    /\ UNCHANGED <<boxVars, callerVars, reloadVars, options, ruleVars, box,
                   closedOutbounds>>

\* the factory closure, called k times when made calls came before:
\* outbounds = append(outbounds, out) on the local outbounds of New
FactoryOutbounds(made, k) == [j \in 1..k |-> DirectOutbound(made + j)]
Times(k, when) == [j \in 1..k |-> when]

\* router.Initialize(inbounds, outbounds, factory, proxyProviders,
\* ruleProviders): the router gets the value outbounds has at the call and may
\* call the factory; outbound.New failing in the factory panics (common.Must)
Initialize ==
    /\ newPc = "router.Initialize"
    /\ initializeArgs' = Append(initializeArgs, outbounds)
    /\ \E k \in 0..(MaxFactoryCalls - Len(factoryCalls)) :
        /\ outbounds' = AppendOutbounds(outbounds, FactoryOutbounds(Len(factoryCalls), k))
        /\ factoryCalls' = factoryCalls \o Times(k, "Initialize")
    /\ \E r \in NewOutcomes \cup {"panic"} :
        CASE r = "ok" -> newPc' = "services" /\ UNCHANGED newErr
          [] r = "err" -> NewFail(<<"", "router.Initialize">>)
          [] r = "panic" -> newPc' = "panicked" /\ UNCHANGED newErr
    /\ UNCHANGED <<boxVars, callerVars, reloadVars, options, ruleVars, proxyProviders,
                   fetched, getCalls, box, closedOutbounds>>

\* a Box that keeps the outbounds as they were handed to router.Initialize
BoxOutboundsAsInitialized == initializeArgs[1]

\* outbounds: outbounds in the Box literal: the value the local has at the return
BoxOutbounds == outbounds

\* the platform interface, the clash api and v2ray api servers, return &Box{...}
NewReturn ==
    /\ newPc = "services"
    /\ \E r \in NewOutcomes :
        IF r = "ok"
          THEN /\ box' = [outbounds |-> BoxOutbounds, proxyProviders |-> proxyProviders,
                          ruleProviders |-> ruleProviders]
               /\ newPc' = "returned"
               /\ UNCHANGED newErr
          ELSE /\ NewFail(<<"create service">>)
               /\ UNCHANGED box
    /\ UNCHANGED <<boxVars, callerVars, reloadVars, options, ruleVars, outboundVars,
                   closedOutbounds>>

\* the router calls the factory after New has returned: the closure appends to
\* the local outbounds, the Box keeps the slice it was given
LateFactoryCall ==
    /\ newPc = "returned"
    /\ ~done
    /\ Len(factoryCalls) < MaxFactoryCalls
    /\ outbounds' = AppendOutbounds(outbounds, FactoryOutbounds(Len(factoryCalls), 1))
    /\ factoryCalls' = factoryCalls \o Times(1, "later")
    /\ UNCHANGED <<boxVars, callerVars, reloadVars, options, newPc, ruleVars,
                   proxyProviders, fetched, getCalls, initializeArgs, box, newErr,
                   closedOutbounds>>

\* the first Close() of the Box New returned, as far as the outbounds go:
\* close(s.done), for i, out := range s.outbounds { common.Close(out) }
CloseNewBox ==
    /\ newPc = "returned"
    /\ ~done
    /\ done' = TRUE
    /\ closedOutbounds' = box.outbounds
    /\ UNCHANGED <<preServices, preStarters, preStartCount, startCount, closeCount,
                   callsMade, faults, errorLog, callerVars, reloadVars, options, newPc,
                   ruleVars, outboundVars, box, newErr>>

(***************************************************************************)
(* Specifications.  Spec: one goroutine calls the Box, so its calls follow *)
(* one another.  SpecConcurrent: the goroutines of Callers call the Box    *)
(* at the same time.  SpecReload: the producers and the reader of the      *)
(* reload channel.                                                         *)
(***************************************************************************)
Step(t) ==
    \/ PreStartService(t)
    \/ StartOutbound(t)
    \/ StartRouter(t)
    \/ StartService(t)
    \/ StartProxyProvider(t)
    \/ StartRuleProvider(t)
    \/ StartInbound(t)
    \/ ReturnStarted(t)
    \/ Rollback(t)
    \/ CloseSelect(t)
    \/ CloseDone(t)
    \/ CloseRuleProvider(t)
    \/ CloseProxyProvider(t)
    \/ CloseInbound(t)
    \/ CloseOutbound(t)
    \/ CloseRouter(t)
    \/ ClosePreService(t)
    \/ CloseLogFactory(t)
    \/ CloseReturn(t)
    \/ Recover(t)

\* the goroutine of Spec
Main == CHOOSE t \in Callers : \A u \in Callers : t <= u

Next == Call(Main) \/ Step(Main)

NextConcurrent == \E t \in Callers : Call(t) \/ Step(t)

NextReload == (\E p \in Producers : PostReload(p)) \/ ReadReload

NextNew ==
    \/ NewLogFactory
    \/ NewRuleProvider
    \/ NewRouter
    \/ NewInbounds
    \/ NewOutbound
    \/ NewProxyProvider
    \/ Initialize
    \/ NewReturn
    \/ LateFactoryCall
    \/ CloseNewBox

Spec == Init /\ [][Next]_vars

SpecConcurrent == Init /\ [][NextConcurrent]_vars

SpecReload == Init /\ [][NextReload]_vars

SpecNew == InitNew /\ [][NextNew]_vars

(***************************************************************************)
(* Properties.                                                             *)
(***************************************************************************)
Idle(t) == pc[t] = "idle"
NothingStarted ==
    \A c \in Components : startCount[c] = 0 /\ preStartCount[c] = 0

\* C1: in a sequence of Close() calls only the first tears down: a Close()
\* that finds the Box closed returns os.ErrClosed at once and calls Close on no
\* component, and no component's Close is ever called twice.
C1_CloseOnce ==
    /\ [](\A c \in Components : closeCount[c] <= 1)
    /\ [][(pc[Main] = "close.select" /\ done)
            => /\ pc'[Main] = "idle"
               /\ closeCount' = closeCount
               /\ (~rollback[Main] => ret'[Main] = "ErrClosed")]_vars

\* two Close() calls, nothing else: the second returned os.ErrClosed after the
\* first closed the components
C1_Witness ==
    /\ callsMade = 2
    /\ NothingStarted
    /\ Idle(Main) /\ op[Main] = "Close" /\ ret[Main] = "ErrClosed"
    /\ \A c \in Components : closeCount[c] = 1

\* C2: of the goroutines that call Close() at the same time one tears down and
\* every other one returns os.ErrClosed; s.done is closed once and no
\* component's Close is called twice.
C2_ConcurrentCloseOneWinner ==
    /\ Cardinality({t \in Callers : teardown[t]}) <= 1
    /\ \A c \in Components : closeCount[c] <= 1
    /\ \A t \in Callers :
        (op[t] = "Close" /\ Idle(t) /\ ~teardown[t]) => ret[t] = "ErrClosed"

\* Start() returned the error of starting the inbound of index k
StartFailedAtInbound(t, k) ==
    /\ Idle(t) /\ op[t] = "Start" /\ ret[t] = "err"
    /\ err[t] = <<"initialize inbound", <<"inbound", k>>>>

\* C3 as stated: after Start() failed at inbound k and its rollback tore the
\* Box down, the router, outbounds, pre-services and providers and the inbounds
\* before k were closed once, and the inbounds from k on were not closed.
C3_ClosesOnlyStartedInbounds ==
    \A k \in 1..NumInbounds :
        (StartFailedAtInbound(Main, k) /\ teardown[Main])
            => /\ \A c \in Components \ (Inbounds \cup {LogFactory}) : closeCount[c] = 1
               /\ \A j \in 1..NumInbounds :
                    closeCount[<<"inbound", j>>] = IF j < k THEN 1 ELSE 0

\* C3 amended: after Start() failed at inbound k and its rollback tore the Box
\* down, the router, outbounds, pre-services, providers and every inbound, those
\* from k on too, were closed exactly once.
C3_ClosesEveryInbound ==
    \A k \in 1..NumInbounds :
        (StartFailedAtInbound(Main, k) /\ teardown[Main])
            => \A c \in Components \ {LogFactory} : closeCount[c] = 1

\* Start() failed at the last inbound and the rollback closed that inbound
C3_Witness ==
    /\ StartFailedAtInbound(Main, NumInbounds)
    /\ teardown[Main]
    /\ startCount[<<"inbound", NumInbounds>>] = 1
    /\ closeCount[<<"inbound", NumInbounds>>] = 1

\* the Close() that tore the Box down has returned
TeardownReturned(t) == Idle(t) /\ teardown[t] /\ ret[t] # "panic"
ErrorSet(es) == {es[i] : i \in 1..Len(es)}

\* C4: the first Close() calls Close on every component whichever of them
\* fail, its aggregate holds one entry for each component whose Close failed,
\* and it returns nil exactly when none failed.
C4_CloseAggregatesAll ==
    \A t \in Callers :
        TeardownReturned(t)
            => /\ \A c \in Components : closeCount[c] = 1
               /\ ErrorSet(errors[t]) = closeErrs[t]
               /\ Len(errors[t]) = Cardinality(closeErrs[t])
               /\ op[t] = "Close" => (ret[t] = "nil" <=> closeErrs[t] = {})
               /\ op[t] = "Close" => (ret[t] = "errors" <=> closeErrs[t] # {})

\* Close() returned the aggregate of the router's and the log factory's errors
C4_Witness ==
    /\ TeardownReturned(Main) /\ op[Main] = "Close" /\ ret[Main] = "errors"
    /\ closeErrs[Main] = {Router, LogFactory}
    /\ errors[Main] = <<Router, LogFactory>>

\* the place of a component's kind in the order of teardown
CloseRank ==
    "postService" :> 1 @@ "ruleProvider" :> 2 @@ "proxyProvider" :> 3 @@ "inbound" :> 4
        @@ "outbound" :> 5 @@ "router" :> 6 @@ "preService" :> 7 @@ "logFactory" :> 8
ClosedBefore(c, d) ==
    \/ CloseRank[c[1]] < CloseRank[d[1]]
    \/ c[1] = d[1] /\ c[1] # "preService" /\ Index(c) < Index(d)

\* C5: Close() closes post-services, rule providers, proxy providers,
\* inbounds, outbounds, the router, pre-services, the log factory in that
\* order, the slices in index order: a component is closed only when every
\* component before it in that order has been.
C5_CloseOrder ==
    LET all == Components
        closed == {c \in all : closeCount[c] > 0}
        open == all \ closed
    IN  \/ closed = {}
        \/ open = {}
        \/ \A d \in closed : \A c \in open : ~ClosedBefore(c, d)

\* in the teardown: providers and inbounds closed, outbounds and router not yet
C5_Witness ==
    /\ pc[Main] = "close.outbounds" /\ visited[Main] = {}
    /\ \A c \in RuleProviders \cup ProxyProviders \cup Inbounds : closeCount[c] = 1
    /\ \A c \in Outbounds \cup {Router, LogFactory} \cup preServices : closeCount[c] = 0

\* the lifecycle calls of a Start(): PreStart of c, Start of c
StartEvents ==
    {<<"PreStart", c>> : c \in preStarters}
        \cup {<<"Start", c>> : c \in Components \ {LogFactory}}
EventCount(e) == IF e[1] = "PreStart" THEN preStartCount[e[2]] ELSE startCount[e[2]]
StartRankOfKind ==
    "outbound" :> 2 @@ "router" :> 3 @@ "preService" :> 4 @@ "proxyProvider" :> 5
        @@ "ruleProvider" :> 6 @@ "inbound" :> 7
StartRank(e) == IF e[1] = "PreStart" THEN 1 ELSE StartRankOfKind[e[2][1]]
StartedBefore(e, f) ==
    \/ StartRank(e) < StartRank(f)
    \/ /\ StartRank(e) = StartRank(f)
       /\ e[2][1] \in {"proxyProvider", "ruleProvider", "inbound"}
       /\ Index(e[2]) < Index(f[2])

\* C6: a Start() calls PreStart on the PreStarter pre-services, then Start on
\* the outbounds, the router, the pre-services, the proxy providers, the rule
\* providers and the inbounds, in that order and the slices in list order, each
\* once; when nothing fails it has made every one of these calls.
C6_StartOrder ==
    (callsMade = 1 /\ op[Main] = "Start")
        => /\ \A e \in StartEvents : EventCount(e) <= 1
           /\ \A c \in Components : c \notin preStarters => preStartCount[c] = 0
           /\ LET made == {e \in StartEvents : EventCount(e) > 0}
              IN  \A f \in made : \A e \in StartEvents \ made : ~StartedBefore(e, f)
           /\ (Idle(Main) /\ ret[Main] = "nil")
                => \A e \in StartEvents : EventCount(e) = 1

\* a Start() of a Box with both pre-services, one a PreStarter, returned nil
C6_Witness ==
    /\ callsMade = 1 /\ op[Main] = "Start" /\ Idle(Main) /\ ret[Main] = "nil"
    /\ preServices = AllPreServices /\ preStarters = {ClashAPI}
    /\ faults = 0
    /\ \A c \in Inbounds : startCount[c] = 1

\* C7: a PreStart() or Start() that fails returns the start error, never nil
\* and never what Close() returned, and has called Close() by then, so s.done
\* is closed when it returns.
C7_RollbackBeforeError ==
    \A t \in Callers :
        (Idle(t) /\ op[t] \in {"PreStart", "Start"})
            => /\ ret[t] \notin {"nil", "panic"}
                    => (ret[t] = "err" /\ err[t] # Nil /\ rollback[t] /\ done)
               /\ err[t] # Nil => ret[t] \in {"err", "panic"}

\* Start() returned its error after a rollback in which a Close failed
C7_Witness ==
    /\ Idle(Main) /\ op[Main] = "Start" /\ ret[Main] = "err"
    /\ rollback[Main] /\ teardown[Main] /\ done
    /\ errors[Main] # <<>>

\* C8: the reload channel holds at most one notification; a post never
\* blocks; a post made while one is pending is dropped, so after any post
\* exactly one is pending.
C8_ReloadCoalesces ==
    /\ [](reloadChan <= 1)
    /\ [](\A p \in Producers : posts[p] < MaxPosts => ENABLED PostReload(p))
    /\ [][\A p \in Producers :
            posts'[p] # posts[p]
                => /\ reloadChan' = 1
                   /\ lastPost'[p] = IF reloadChan = 1 THEN "dropped" ELSE "sent"]_vars

\* a producer posted while another's notification was pending: it was dropped
C8_Witness ==
    \E p, q \in Producers :
        /\ p # q
        /\ lastPost[p] = "sent" /\ lastPost[q] = "dropped"
        /\ posts[p] = 1 /\ posts[q] = 1
        /\ reloadChan = 1

\* C9: every loop over the pre-services visits "clash api" before "v2ray api"
C9_PreServicesInRegistrationOrder ==
    \A t \in Callers :
        (pc[t] \in {"preStart.services", "start.services", "close.preServices"}
            /\ preServices = AllPreServices)
            => (V2RayAPI \in visited[t] => ClashAPI \in visited[t])

Logged(e) == \E i \in 1..Len(errorLog) : errorLog[i] = <<"origin error", e>>

\* C10: when the Close() of a rollback panics, PreStart()/Start() does not
\* return: the deferred function logs the start error and panics again, so the
\* call ends in a panic with the start error in the log.
C10_RollbackPanicReraised ==
    \A t \in Callers :
        (rollback[t] /\ panicVal[t] # Nil)
            => \/ pc[t] = "recover" /\ ret[t] = "running"
               \/ /\ Idle(t) /\ ret[t] = "panic"
                  /\ panicVal[t][1] = "panic on early close"
                  /\ err[t] # Nil /\ Logged(err[t])

\* Start() failed, the router's Close panicked in the rollback, Start() panicked
C10_Witness ==
    /\ Idle(Main) /\ op[Main] = "Start" /\ ret[Main] = "panic"
    /\ rollback[Main] /\ err[Main] # Nil
    /\ panicVal[Main] = <<"panic on early close", <<"panic", Router>>>>
    /\ errorLog = <<<<"origin error", err[Main]>>>>

\* C11: Closed is terminal: once s.done is closed no PreStart() or Start() calls
\* PreStart or Start on a component, and none returns nil, which would leave
\* the Box pre-started or started.
C11_ClosedIsTerminal ==
    /\ [][done => (startCount' = startCount /\ preStartCount' = preStartCount)]_vars
    /\ [][(done /\ pc[Main] \in {"PreStart.return", "Start.return"})
            => ret'[Main] # "nil"]_vars

\* the lifecycle call whose failure is the error e of preStart()/start()
FailedEvent(e) == <<IF e[1] = "pre-starting" THEN "PreStart" ELSE "Start", e[2]>>

\* C14: a failure in Start() ends it: once a PreStart or Start of a component
\* has failed the call makes no further PreStart or Start, so no component
\* later in the start order than the failed one has been pre-started or started
\* by that Start().
C14_FailureAbortsStages ==
    /\ [][err[Main] # Nil
            => (startCount' = startCount /\ preStartCount' = preStartCount)]_vars
    /\ []((callsMade = 1 /\ op[Main] = "Start" /\ err[Main] # Nil)
            => \A f \in StartEvents :
                 StartedBefore(FailedEvent(err[Main]), f) => EventCount(f) = 0)

\* Start() failed at the proxy provider: no rule provider or inbound was started
C14_Witness ==
    /\ callsMade = 1 /\ op[Main] = "Start" /\ Idle(Main) /\ ret[Main] = "err"
    /\ err[Main][1] = "start proxyprovider"
    /\ \A c \in Outbounds \cup {Router} \cup preServices : startCount[c] = 1
    /\ preServices # {}
    /\ \A c \in RuleProviders \cup Inbounds : startCount[c] = 0

\* C15: an error that PreStart() returns is always the cause wrapped with the
\* name of the failing pre-service or stage, never the bare error of the
\* component.
C15_PreStartErrorWrapped ==
    \A t \in Callers :
        (Idle(t) /\ op[t] = "PreStart" /\ ret[t] = "err")
            => (err[t] # Nil /\ err[t][1] # "")

\* PreStart() or Start() has returned an error to the goroutine
StartReturnedError(t) == Idle(t) /\ op[t] \in {"PreStart", "Start"} /\ ret[t] = "err"

\* C16: when PreStart() or Start() has returned an error s.done is closed and
\* stays closed, so a Close() the caller makes afterwards returns
\* os.ErrClosed and calls Close on no component; and the errors a rollback
\* collected are returned by no call.
C16_CloseAfterFailedStart ==
    /\ [](StartReturnedError(Main) => done)
    /\ [][done => done']_vars
    /\ [][(done /\ pc[Main] = "close.select" /\ ~rollback[Main])
            => /\ ret'[Main] = "ErrClosed" /\ pc'[Main] = "idle"
               /\ closeCount' = closeCount]_vars
    /\ [](rollback[Main] => ret[Main] # "errors")

\* Start() failed at an inbound, its rollback collected a close error, and the
\* Close() the caller made next returned os.ErrClosed
C16_Witness ==
    /\ callsMade = 2 /\ Idle(Main) /\ op[Main] = "Close" /\ ret[Main] = "ErrClosed"
    /\ ~teardown[Main]
    /\ faults > 1 /\ errorLog = <<>>
    /\ \E c \in Inbounds : startCount[c] = 1
    /\ \A c \in Components : closeCount[c] = 1

\* the calls of the pre-start stage: PreStart of the PreStarter pre-services,
\* Start of the outbounds and of the router
PreStartEvents ==
    {e \in StartEvents : e[1] = "PreStart" \/ e[2][1] \in {"outbound", "router"}}

\* the goroutine's second call, a Start(), returned nil and its first was m
StartedAfter(m) ==
    /\ callsMade = 2 /\ Idle(Main) /\ op[Main] = "Start" /\ ret[Main] = "nil"
    /\ prev[Main] = <<m, "nil">>

\* C18: Start() runs the pre-start stage whatever ran before: after a PreStart()
\* that succeeded and a Start() that succeeded every PreStarter pre-service has
\* been pre-started twice and every outbound and the router started twice, the
\* rest once; after a Start() alone each has been called exactly once.
C18_StartRepeatsPreStart ==
    /\ StartedAfter("PreStart")
        => \A e \in StartEvents :
             EventCount(e) = IF e \in PreStartEvents THEN 2 ELSE 1
    /\ (callsMade = 1 /\ Idle(Main) /\ op[Main] = "Start" /\ ret[Main] = "nil")
        => \A e \in StartEvents : EventCount(e) = 1

\* PreStart() then Start(), both nil, on a Box with a PreStarter pre-service:
\* the router was started twice
C18_Witness ==
    /\ StartedAfter("PreStart")
    /\ preStarters # {}
    /\ \A c \in preStarters : preStartCount[c] = 2
    /\ startCount[Router] = 2
    /\ \A c \in Inbounds : startCount[c] = 1

\* C19: the Close() that tears the Box down, called by the owner or by a
\* rollback, has called Close exactly once on every component when it returns:
\* post-services, rule providers, proxy providers, inbounds, outbounds, router,
\* pre-services and log factory, whatever was pre-started or started before;
\* and no component's Close is called a second time.
C19_CloseReachesEveryComponent ==
    /\ \A c \in Components : closeCount[c] <= 1
    /\ \A t \in Callers :
        TeardownReturned(t)
            => \A c \in Components : closeCount[c] = 1

\* Close() after a PreStart() that succeeded: the inbounds, never started, and
\* the router, started, were closed alike
C19_Witness ==
    /\ callsMade = 2 /\ op[Main] = "Close" /\ TeardownReturned(Main)
    /\ prev[Main] = <<"PreStart", "nil">>
    /\ startCount[Router] = 1
    /\ \A c \in Inbounds : startCount[c] = 0
    /\ \A c \in Components : closeCount[c] = 1

Range(s) == {s[i] : i \in 1..Len(s)}

\* the k-th outbound the factory made is in the Box's outbounds, and among the
\* outbounds closed once Close() has run
DirectOutboundKept(k) ==
    /\ DirectOutbound(k) \in Range(box.outbounds)
    /\ done => DirectOutbound(k) \in Range(closedOutbounds)

\* C12 as stated: whenever the router has called the factory, during
\* Initialize or later, the direct outbound it made is in the outbounds of the
\* Box that New returned and is closed by the first Close().
C12_FactoryOutboundAlwaysClosed ==
    newPc = "returned" => \A k \in 1..Len(factoryCalls) : DirectOutboundKept(k)

\* C12 amended: a direct outbound the factory made during router.Initialize is
\* in the outbounds of the Box that New returned and is closed by the first
\* Close(); the Box's outbounds hold no outbound made by a later call.
C12_InitializeFactoryOutboundClosed ==
    newPc = "returned"
        => \A k \in 1..Len(factoryCalls) :
             IF factoryCalls[k] = "Initialize" THEN DirectOutboundKept(k)
             ELSE DirectOutbound(k) \notin Range(box.outbounds)
                    /\ DirectOutbound(k) \notin Range(closedOutbounds)

\* no outbound configured, the router asked for the default during Initialize:
\* the Box held the direct outbound alone and Close() closed it
C12_Witness ==
    /\ newPc = "returned" /\ done
    /\ options.Outbounds = 0 /\ options.ProxyProviders = 0
    /\ factoryCalls = <<"Initialize">>
    /\ box.outbounds = <<DirectOutbound(1)>>
    /\ closedOutbounds = <<DirectOutbound(1)>>

\* what the providers returned, one provider after the other
RECURSIVE Concat(_)
Concat(ss) == IF ss = <<>> THEN <<>> ELSE Head(ss) \o Concat(Tail(ss))

\* the configured outbounds in index order, then what each provider returned,
\* provider by provider and in the order returned
StaticThenFetched ==
    [i \in 1..options.Outbounds |-> StaticOutbound(i)] \o Concat(fetched)

NoDuplicates(s) == Cardinality(Range(s)) = Len(s)

\* every proxy provider of the configuration was asked for its outbounds once
EachProviderAskedOnce ==
    \A p \in 1..MaxProxyProviderOptions :
        getCalls[p] = IF p <= options.ProxyProviders THEN 1 ELSE 0

\* the outbounds router.Initialize is handed are the configured ones followed
\* by the providers', none twice, each provider asked once
InitializeGetsStaticThenFetched ==
    /\ Len(initializeArgs) <= 1
    /\ initializeArgs # <<>>
        => /\ initializeArgs[1] = StaticThenFetched
           /\ NoDuplicates(initializeArgs[1])
           /\ Len(fetched) = options.ProxyProviders
           /\ EachProviderAskedOnce
    /\ \A p \in 1..MaxProxyProviderOptions : getCalls[p] <= 1

\* C13 as stated: the outbounds handed to router.Initialize, and those the Box
\* keeps, are exactly the configured outbounds in index order followed by each
\* provider's in provider order and returned order, none missing or twice, and
\* StartGetOutbounds is called once per provider.
C13_BoxKeepsStaticThenFetched ==
    /\ InitializeGetsStaticThenFetched
    /\ newPc = "returned" => box.outbounds = StaticThenFetched

\* C13 amended: that list is what router.Initialize is handed; the Box keeps it
\* followed by the direct outbounds the factory made during Initialize.
C13_OutboundsToInitialize ==
    /\ InitializeGetsStaticThenFetched
    /\ newPc = "returned"
        => /\ box.outbounds =
                StaticThenFetched
                    \o FactoryOutbounds(0, Cardinality({k \in 1..Len(factoryCalls) :
                                                       factoryCalls[k] = "Initialize"}))
           /\ NoDuplicates(box.outbounds)

\* one configured outbound and two providers that returned two outbounds each:
\* Initialize was handed the five in order
C13_Witness ==
    /\ newPc = "returned"
    /\ options.Outbounds = 1 /\ options.ProxyProviders = 2
    /\ initializeArgs =
         <<<<StaticOutbound(1), ProviderOutbound(1, 1), ProviderOutbound(1, 2),
             ProviderOutbound(2, 1), ProviderOutbound(2, 2)>>>>
    /\ getCalls[1] = 1 /\ getCalls[2] = 1
    /\ box.outbounds = initializeArgs[1]

\* the rule list of a kind in the configuration, now, and as handed to the router
ConfiguredRules(kind) == IF kind = "route" THEN options.Route ELSE options.DNS
CurrentRules(kind) == IF kind = "route" THEN routeOptions ELSE dnsOptions
RouterRules(kind) == IF kind = "route" THEN routerArgs[1].route ELSE routerArgs[1].dns
RuleKinds == {"route", "dns"}

\* C17: a rule list that is empty in the configuration is never replaced: it
\* is empty after every rule provider and when the router is made; a list that
\* is not empty when a rule provider is reached is replaced by the list that
\* provider's FormatRule returned, an empty one is left as it is.
C17_EmptyRulesNeverReplaced ==
    /\ [](\A kind \in RuleKinds :
            ConfiguredRules(kind) = NoRules
                => /\ CurrentRules(kind) = NoRules
                   /\ routerArgs # <<>> => RouterRules(kind) = NoRules)
    /\ [][Len(formatResults') > Len(formatResults)
            => /\ routeOptions' = IF routeOptions = NoRules THEN NoRules
                                  ELSE formatResults'[Len(formatResults')].route
               /\ dnsOptions' = IF dnsOptions = NoRules THEN NoRules
                                ELSE formatResults'[Len(formatResults')].dns]_vars

\* no route rule configured, two rule providers that both returned route rules:
\* the router was made with no route rule and with the second one's DNS rules
C17_Witness ==
    /\ options.Route = NoRules /\ options.DNS # NoRules
    /\ options.RulProviders = 2
    /\ formatResults =
         <<[dns |-> NonEmptyRules("dns", 1), route |-> NonEmptyRules("route", 1)],
           [dns |-> NonEmptyRules("dns", 2), route |-> NonEmptyRules("route", 2)]>>
    /\ routerArgs = <<[route |-> NoRules, dns |-> NonEmptyRules("dns", 2)]>>

\* what the i-th FormatRule call was handed for the kind: <<l>>, or <<>> for
\* nil; and the list it stands for, nil standing for the empty list
ArgOf(i, kind) == IF kind = "route" THEN formatArgs[i].route ELSE formatArgs[i].dns
ListHanded(i, kind) == IF ArgOf(i, kind) = <<>> THEN NoRules ELSE ArgOf(i, kind)[1]
ReturnedBy(i, kind) ==
    IF kind = "route" THEN formatResults[i].route ELSE formatResults[i].dns

\* FormatRule of rule provider i failed and New returned that error
FormatRuleFailedAt(i) == newPc = "failed" /\ newErr = <<"ruleprovider format rule", i>>

\* a FormatRule failure at rule provider i ends New: the providers before i are
\* the only ones made, FormatRule was called i times and no router was made
FormatRuleFailureEndsNew ==
    \A i \in 1..MaxRuleProviderOptions :
        FormatRuleFailedAt(i)
            => /\ ruleProviders = [j \in 1..(i - 1) |-> j]
               /\ Len(formatArgs) = i
               /\ routerArgs = <<>>

\* C20 as stated: the first rule provider is handed the configured rule lists
\* and provider i the lists provider i-1 returned, the router is made from the
\* lists the last provider returned, and a FormatRule failure at provider i
\* ends New before the router or a later provider is made.
C20_RuleListsChainThroughProviders ==
    /\ \A kind \in RuleKinds :
        /\ \A i \in 1..Len(formatArgs) :
             ListHanded(i, kind) = IF i = 1 THEN ConfiguredRules(kind)
                                   ELSE ReturnedBy(i - 1, kind)
        /\ (routerArgs # <<>> /\ formatResults # <<>>)
             => RouterRules(kind) = ReturnedBy(Len(formatResults), kind)
    /\ FormatRuleFailureEndsNew

\* the rule list of a kind after the first n rule providers: the configured
\* one, replaced by each provider that was handed a list that was not empty
RECURSIVE RulesAfter(_, _)
RulesAfter(kind, n) ==
    IF n = 0 THEN ConfiguredRules(kind)
    ELSE IF RulesAfter(kind, n - 1) = NoRules THEN NoRules
    ELSE ReturnedBy(n, kind)

\* C20 amended: for a rule list that is not empty the chain is as stated; a
\* list that is empty, in the configuration or because a provider returned it
\* empty, is handed to the providers after that as nil and stays empty whatever
\* they return for it, and the router is made from the lists as they then are.
C20_NonEmptyRuleListsChain ==
    /\ \A kind \in RuleKinds :
        /\ \A i \in 1..Len(formatArgs) :
             ArgOf(i, kind) = IF RulesAfter(kind, i - 1) = NoRules THEN <<>>
                              ELSE <<RulesAfter(kind, i - 1)>>
        /\ routerArgs # <<>> => RouterRules(kind) = RulesAfter(kind, Len(formatResults))
    /\ FormatRuleFailureEndsNew

\* two rule providers, both lists configured and rewritten by each: the second
\* was handed what the first returned and the router what the second returned
C20_Witness ==
    /\ options.RulProviders = 2
    /\ options.Route # NoRules /\ options.DNS # NoRules
    /\ formatArgs =
         <<[dns |-> <<NonEmptyRules("dns", "config")>>,
            route |-> <<NonEmptyRules("route", "config")>>],
           [dns |-> <<NonEmptyRules("dns", 1)>>, route |-> <<NonEmptyRules("route", 1)>>]>>
    /\ routerArgs =
         <<[route |-> NonEmptyRules("route", 2), dns |-> NonEmptyRules("dns", 2)]>>

==========================================================================
